---- MODULE Spec2Model ----
(***************************************************************************)
(* TechMate: the intervention intake page (NewIntervention.tsx), the       *)
(* intervention detail page (InterventionDetail, second half of            *)
(* Interventions.tsx) and the interventions table of the store.            *)
(*                                                                         *)
(* Six specifications share the variables:                                 *)
(*   Spec      one mounted intake session driven through its controls      *)
(*             (microphone button, selects, textarea, save button); the    *)
(*             content of the chunk buffer, which no handler branches on,  *)
(*             is not traced here;                                         *)
(*   SpecAudio the recorders of that session with the chunks they deliver; *)
(*   SpecLive  Spec, with every call of a stopped recording returning;     *)
(*   SpecCall  Spec, plus handleSave invoked as a function without the     *)
(*             save button's disabled attribute in front of it;            *)
(*   SpecLife  two detail sessions updating the status of one stored       *)
(*             intervention;                                               *)
(*   SpecGen   the generate-solution edge function serving requests.       *)
(*                                                                         *)
(* In Spec the generate-solution call of a recording returns what that     *)
(* handler answers to the request the page sent.                           *)
(*                                                                         *)
(* An intake session ends when the page navigates away; of the work it     *)
(* left in flight only the insert, which writes the table, is followed.    *)
(***************************************************************************)
EXTENDS Integers, Sequences, FiniteSets, TLC

\* ------------------------------------------------------------------ bounds

\* getUserMedia calls (clicks on the idle microphone button) per session.
MaxStarts == 2
\* Chunks one session's recorders deliver to ondataavailable.
MaxChunks == 1
\* Readings of the wall clock (new Date()) that can be told apart.
MaxClock == 2

\* ------------------------------------------------------------ value domains

Machines == {"M1"}
Technicians == {"T1"}
\* What the user can type into the textarea ("" clears it).
TypedTexts == {"", "u"}
\* Two detail pages open on the same intervention.
Sessions == {"A", "B"}

Statuses == {"pending", "in_progress", "resolved", "cancelled"}
ProcessingSteps == {"idle", "recording", "transcribing", "generating", "complete"}

\* SQL NULL in a timestamp column; clock readings start at 1.
NULL == 0

VARIABLES
  \* the interventions table: a sequence of rows, the id is the index
  store,
  \* ---- NewIntervention component state (useState / useRef)
  mounted,
  selectedMachine,
  selectedTechnician,
  problemDescription,
  aiSolution,
  processingStep,
  isRecording,
  saving,
  mediaRecorderRef,
  audioChunksRef,
  \* ---- asynchronous work of the intake session
  starts,      \* number of startRecording calls made so far
  run,         \* per startRecording call: device, recorder and processAudio state
  saveReq,     \* the payloads of the inserts in flight
  toast,       \* the notification emitted by the last step ("none" if none)
  \* ---- InterventionDetail component state, per session
  intervention,  \* <<>> (null) or <<cached row>>
  updating,
  updReq,        \* the update in flight: <<>> or <<patch>>
  detailToast,   \* per session, the notification emitted by the last step
  clock,
  \* ---- generate-solution edge function
  exchange       \* <<>> or <<the last request served and its response>>

storeVars == <<store>>
formVars == <<selectedMachine, selectedTechnician, problemDescription, aiSolution>>
pipeVars == <<processingStep, isRecording, mediaRecorderRef, audioChunksRef, starts, run>>
saveVars == <<saving, saveReq, mounted>>
intakeVars == <<formVars, pipeVars, saveVars, toast>>
lifeVars == <<intervention, updating, updReq, detailToast, clock>>
srvVars == <<exchange>>
vars == <<storeVars, intakeVars, lifeVars, srvVars>>

\* ------------------------------------------------------------------- store

\* Column defaults of public.interventions for the columns an insert omits.
ColumnDefaults ==
  [ machine_id |-> "", technician_id |-> "", problem_description |-> "",
    ai_solution |-> "", status |-> "pending", priority |-> "medium",
    resolved_at |-> NULL ]

\* INSERT: the payload's columns, defaults for the others.
InsertRow(payload) == payload @@ ColumnDefaults

\* UPDATE ... SET <patch>: only the patch's columns change.
ApplyPatch(row, patch) ==
  [ c \in DOMAIN row |-> IF c \in DOMAIN patch THEN patch[c] ELSE row[c] ]

\* ------------------------------------------------- InterventionDetail

\* The id every detail session has in its route.
TheId == 1

\* updateData without the resolved_at branch.
UpdateDataStatusOnly(newStatus, now) == [status |-> newStatus]

\* updateData that resets resolved_at when the target is not resolved.
UpdateDataClearsResolvedAt(newStatus, now) ==
  [status |-> newStatus,
   resolved_at |-> IF newStatus = "resolved" THEN now ELSE NULL]

\* updateData of updateStatus: the status, plus resolved_at when resolving.
UpdateData(newStatus, now) ==
  IF newStatus = "resolved"
  THEN [status |-> newStatus, resolved_at |-> now]
  ELSE [status |-> newStatus]

\* setIntervention({ ...intervention, status: newStatus })
CachedAfterUpdate(cached, newStatus) ==
  [cached EXCEPT !.status = newStatus]

\* The notification of the step just taken: t in session s, none elsewhere.
ToastIn(s, t) == [x \in Sessions |-> IF x = s THEN t ELSE "none"]

\* fetchData: select * where id = TheId, then setIntervention(data).
FetchData(s) ==
  /\ intervention[s] = <<>>
  /\ Len(store) >= TheId
  /\ intervention' = [intervention EXCEPT ![s] = <<store[TheId]>>]
  /\ detailToast' = ToastIn(s, "none")
  /\ UNCHANGED <<storeVars, intakeVars, srvVars, updating, updReq, clock>>

\* The targets the quick-action buttons offer for the cached status.
QuickTargets(status) ==
  CASE status = "pending" -> {"in_progress", "cancelled"}
    [] status = "in_progress" -> {"resolved", "cancelled"}
    [] OTHER -> {}

\* The current reading of new Date().
Now == clock

\* updateStatus up to its await: setUpdating(true), build updateData, issue
\* the update.  Every control that calls it is disabled while updating.
UpdateStatusCall(s, newStatus) ==
  /\ intervention[s] # <<>>
  /\ ~updating[s]
  /\ updating' = [updating EXCEPT ![s] = TRUE]
  /\ updReq' = [updReq EXCEPT ![s] = <<UpdateData(newStatus, Now)>>]
  /\ detailToast' = ToastIn(s, "none")
  /\ UNCHANGED <<storeVars, intakeVars, srvVars, intervention, clock>>

\* A quick-action button (Iniciar / Resolver / cancel) is clicked.
QuickAction(s) ==
  /\ intervention[s] # <<>>
  /\ \E t \in QuickTargets(intervention[s][1].status) : UpdateStatusCall(s, t)

\* A select that offers only the targets of the transition table.
SelectStatusFromTable(s) ==
  /\ intervention[s] # <<>>
  /\ \E t \in QuickTargets(intervention[s][1].status) : UpdateStatusCall(s, t)

\* An item of the "Alterar Estado" select is chosen.
SelectStatus(s) ==
  \E t \in Statuses : UpdateStatusCall(s, t)

\* An update that the store applies only if the row still has the status
\* the session has cached.
UpdateStatusOkIfFresh(s) ==
  /\ updReq[s] # <<>>
  /\ store[TheId].status = intervention[s][1].status
  /\ store' = [store EXCEPT ![TheId] = ApplyPatch(@, updReq[s][1])]
  /\ intervention' = [intervention EXCEPT
                        ![s] = <<CachedAfterUpdate(@[1], updReq[s][1].status)>>]
  /\ detailToast' = ToastIn(s, "status_updated")
  /\ updating' = [updating EXCEPT ![s] = FALSE]
  /\ updReq' = [updReq EXCEPT ![s] = <<>>]
  /\ UNCHANGED <<intakeVars, srvVars, clock>>

\* The update succeeds: the row is patched, the cached copy gets the status.
UpdateStatusOk(s) ==
  /\ updReq[s] # <<>>
  /\ store' = [store EXCEPT ![TheId] = ApplyPatch(@, updReq[s][1])]
  /\ intervention' = [intervention EXCEPT
                        ![s] = <<CachedAfterUpdate(@[1], updReq[s][1].status)>>]
  /\ detailToast' = ToastIn(s, "status_updated")
  /\ updating' = [updating EXCEPT ![s] = FALSE]
  /\ updReq' = [updReq EXCEPT ![s] = <<>>]
  /\ UNCHANGED <<intakeVars, srvVars, clock>>

\* An updateStatus that updates the cached copy before it looks at the
\* error.
UpdateStatusErrorAfterCaching(s) ==
  /\ updReq[s] # <<>>
  /\ intervention' = [intervention EXCEPT
                        ![s] = <<CachedAfterUpdate(@[1], updReq[s][1].status)>>]
  /\ detailToast' = ToastIn(s, "update_error")
  /\ updating' = [updating EXCEPT ![s] = FALSE]
  /\ updReq' = [updReq EXCEPT ![s] = <<>>]
  /\ UNCHANGED <<storeVars, intakeVars, srvVars, clock>>

\* The update fails: nothing is written, the error toast is shown.
UpdateStatusError(s) ==
  /\ updReq[s] # <<>>
  /\ detailToast' = ToastIn(s, "update_error")
  /\ updating' = [updating EXCEPT ![s] = FALSE]
  /\ updReq' = [updReq EXCEPT ![s] = <<>>]
  /\ UNCHANGED <<storeVars, intakeVars, srvVars, intervention, clock>>

\* Time passes between two readings of new Date().
Tick ==
  /\ clock < MaxClock
  /\ clock' = clock + 1
  /\ detailToast' = [s \in Sessions |-> "none"]
  /\ UNCHANGED <<storeVars, intakeVars, srvVars, intervention, updating, updReq>>

\* ------------------------------------------- generate-solution (edge function)

\* A JSON object is a function from the names of the properties it has to
\* their values; JSON.stringify drops a property whose value is undefined.
NoProperties == [p \in {} |-> ""]

\* JSON.stringify({ name: value }) for a value that may be undefined (<<>>)
\* or defined (<<v>>).
Property(name, value) ==
  IF value = <<>> THEN NoProperties ELSE name :> value[1]

\* response.ok
ResponseOk(status) == status \in 200..299

\* A handler whose catch block answers 200.
CaughtResponseOk(message) ==
  [status |-> 200, body |-> Property("error", <<message>>)]

\* The catch block of the handler: status 500, body { error: message }.
CaughtResponse(message) ==
  [status |-> 500, body |-> Property("error", <<message>>)]

\* The !response.ok branch: 429 and 402 are answered with their own status,
\* any other status throws into the catch block.
GatewayErrorResponse(status) ==
  CASE status = 429 ->
         [status |-> 429, body |-> Property("error", <<"Rate limit exceeded">>)]
    [] status = 402 ->
         [status |-> 402, body |-> Property("error", <<"Payment required">>)]
    [] OTHER -> CaughtResponse("AI Gateway error")

\* What fetch can do: reject, or resolve with one of the statuses, a body
\* that parses or not, and no first choice or one with one of the contents.
UpstreamOutcomes(statuses, contents) ==
  {[fetch |-> "rejects", status |-> 0, json |-> FALSE, choice |-> <<>>]}
  \cup {[fetch |-> "resolves", status |-> s, json |-> j, choice |-> c] :
          s \in statuses, j \in BOOLEAN,
          c \in {<<>>} \cup {<<content>> : content \in contents}}

\* The handler passed to serve.  request: method, whether the body parses
\* (json) and its properties (fields); key: LOVABLE_API_KEY is configured;
\* upstream: what the gateway does with the completion request: fetch
\* rejects or resolves with a status, a body that parses or not (json) and
\* the content of its first choice (<<>> when there is none).
GenerateSolution(request, key, upstream) ==
  IF request.method = "OPTIONS" THEN [status |-> 200, body |-> NoProperties]
  ELSE IF ~request.json THEN CaughtResponse("Unexpected token")
  ELSE IF \/ "problemDescription" \notin DOMAIN request.fields
          \/ request.fields["problemDescription"] = ""
       THEN CaughtResponse("Problem description is required")
  ELSE IF ~key THEN CaughtResponse("LOVABLE_API_KEY is not configured")
  ELSE IF upstream.fetch = "rejects" THEN CaughtResponse("fetch failed")
  ELSE IF ~ResponseOk(upstream.status)
       THEN GatewayErrorResponse(upstream.status)
  ELSE IF ~upstream.json THEN CaughtResponse("Unexpected token")
  ELSE [status |-> 200, body |-> Property("solution", upstream.choice)]

\* The requests the handler is applied to: preflight or POST, a body that
\* does not parse or one with any of the three properties present or not.
ServedFields ==
  { Property("problemDescription", d) @@ Property("machineName", n)
      @@ Property("machineLocation", l) :
      d \in {<<>>, <<"">>, <<"t1">>}, n \in {<<>>, <<"modelM1">>},
      l \in {<<>>, <<"hallM1">>} }
ServedRequests ==
  {[method |-> m, json |-> FALSE, fields |-> NoProperties] :
     m \in {"OPTIONS", "POST"}}
  \cup {[method |-> m, json |-> TRUE, fields |-> f] :
          m \in {"OPTIONS", "POST"}, f \in ServedFields}
ServedStatuses == {200, 402, 429, 500, 503}

\* One invocation of the handler, from the request to the response.
Serve(request, key, upstream) ==
  /\ exchange' = <<[request |-> request, key |-> key, upstream |-> upstream,
                    response |-> GenerateSolution(request, key, upstream)]>>
  /\ UNCHANGED <<storeVars, intakeVars, lifeVars>>

\* ------------------------------------------------------ NewIntervention

\* What the transcription service returns for the audio of recording i, and
\* what the generation service returns for that text.
Text(i) == "t" \o ToString(i)
Solution(i) == "s" \o ToString(i)

StartIds == 1..MaxStarts

\* One startRecording call: the getUserMedia promise and stream (dev), the
\* MediaRecorder built on it (rec), the selectedMachine of the render whose
\* startRecording/processAudio closures the call holds (mach), and the
\* processAudio run its onstop starts (proc, payload, text).  The locals
\* (mach, payload, text) are dropped when the call that holds them returns.
NoRun ==
  [dev |-> "unused", rec |-> "none", mach |-> "", proc |-> "none",
   payload |-> <<>>, text |-> ""]

\* The toast of startRecording's catch block for the error it caught.
MicrophoneToast(error) == "mic_error"

\* The toast of processAudio's catch block when the stage that threw is at
\* and the error it caught is error.
ProcessingToast(at, error) == "processing_error"

\* The error functions.invoke returns for a response that is not ok.
HttpError(status) == "http" \o ToString(status)

\* The rows of the machines the page has loaded: model, and the nullable
\* location (<<>> when null).
MachineRow(id) == [model |-> "model" \o id, location |-> <<"hall" \o id>>]

\* machines.find(m => m.id === id), undefined (<<>>) if there is none.
FindMachine(id) == IF id \in Machines THEN <<MachineRow(id)>> ELSE <<>>

\* The body processAudio sends to generate-solution, selectedMachine being
\* machineId in the closure that runs.
SolutionRequestFields(text, machineId) ==
  LET selectedMachineData == FindMachine(machineId) IN
    Property("problemDescription", <<text>>)
      @@ Property("machineName",
                  IF selectedMachineData = <<>> THEN <<>>
                  ELSE <<selectedMachineData[1].model>>)
      @@ Property("machineLocation",
                  IF selectedMachineData = <<>> THEN <<>>
                  ELSE selectedMachineData[1].location)

\* The generate-solution request of recording i, in flight while its run
\* is generating.
GenerateRequest(i) ==
  [method |-> "POST", json |-> TRUE,
   fields |-> SolutionRequestFields(run[i].text, run[i].mach)]

\* What the gateway can do with the completion request of recording i.
GatewayStatuses == {200, 402, 429, 500}
GatewayOutcomes(i) == UpstreamOutcomes(GatewayStatuses, {Solution(i)})

\* The requests processAudio can send for recording i: its transcribed
\* text with the machine selected when the recording was started, or none.
GenerateRequests(i) ==
  { [method |-> "POST", json |-> TRUE,
     fields |-> SolutionRequestFields(Text(i), m)] : m \in Machines \cup {""} }

\* The responses the handler can give to a request of recording i.
GenerateResponses(i, request) ==
  { GenerateSolution(request, key, upstream) :
      key \in BOOLEAN, upstream \in GatewayOutcomes(i) }

\* supabase.functions.invoke: { data, error } for a response of the handler.
Invoke(response) ==
  IF ResponseOk(response.status)
  THEN [error |-> "", data |-> response.body]
  ELSE [error |-> HttpError(response.status), data |-> NoProperties]

\* What the generate-solution call can return, for each request of each
\* recording.
GenerateResultsOf ==
  [ i \in StartIds |->
      [ request \in GenerateRequests(i) |->
          { Invoke(response) : response \in GenerateResponses(i, request) } ] ]

\* What the generate-solution call of recording i can return.
GenerateResults(i) == GenerateResultsOf[i][GenerateRequest(i)]

\* solutionData.solution; undefined, which renders and saves as an empty
\* field, is "".
SolutionOf(data) ==
  IF "solution" \in DOMAIN data THEN data["solution"] ELSE ""

\* disabled attribute of the microphone button.
MicDisabled == processingStep \in {"transcribing", "generating"}

\* onValueChange of the machine select.
SelectMachine(m) ==
  /\ mounted
  /\ selectedMachine # m
  /\ selectedMachine' = m
  /\ toast' = "none"
  /\ UNCHANGED <<storeVars, lifeVars, srvVars, pipeVars, saveVars,
                 selectedTechnician, problemDescription, aiSolution>>

\* onValueChange of the technician select.
SelectTechnician(t) ==
  /\ mounted
  /\ selectedTechnician # t
  /\ selectedTechnician' = t
  /\ toast' = "none"
  /\ UNCHANGED <<storeVars, lifeVars, srvVars, pipeVars, saveVars,
                 selectedMachine, problemDescription, aiSolution>>

\* onChange of the description textarea.
EditDescription(txt) ==
  /\ mounted
  /\ problemDescription # txt
  /\ problemDescription' = txt
  /\ toast' = "none"
  /\ UNCHANGED <<storeVars, lifeVars, srvVars, pipeVars, saveVars,
                 selectedMachine, selectedTechnician, aiSolution>>

\* startRecording up to its await: getUserMedia is requested.  The closures
\* of this call are those of the current render.
StartRecordingCall ==
  /\ starts < MaxStarts
  /\ starts' = starts + 1
  /\ run' = [run EXCEPT ![starts + 1] =
               [NoRun EXCEPT !.dev = "pending", !.mach = selectedMachine]]
  /\ toast' = "none"
  /\ UNCHANGED <<storeVars, lifeVars, srvVars, formVars, saveVars,
                 processingStep, isRecording, mediaRecorderRef, audioChunksRef>>

\* stopRecording: stop the recorder the ref holds (a no-op on a recorder
\* that is not recording) and clear isRecording.
StopRecording ==
  /\ mediaRecorderRef # 0 /\ isRecording
  /\ run' = [run EXCEPT ![mediaRecorderRef].rec =
               IF @ = "recording" THEN "stopping" ELSE @]
  /\ isRecording' = FALSE
  /\ toast' = "none"
  /\ UNCHANGED <<storeVars, lifeVars, srvVars, formVars, saveVars,
                 processingStep, mediaRecorderRef, audioChunksRef, starts>>

\* onClick of the microphone button: isRecording ? stopRecording : startRecording
MicClick ==
  /\ mounted
  /\ ~MicDisabled
  /\ IF isRecording THEN StopRecording ELSE StartRecordingCall

\* A startRecording that marks the recording as started before the await.
GetUserMediaRejectedAfterMarking(i) ==
  /\ mounted
  /\ run[i].dev = "pending"
  /\ run' = [run EXCEPT ![i].dev = "denied", ![i].mach = ""]
  /\ isRecording' = TRUE
  /\ processingStep' = "recording"
  /\ toast' = MicrophoneToast("NotAllowedError")
  /\ UNCHANGED <<storeVars, lifeVars, srvVars, formVars, saveVars,
                 mediaRecorderRef, audioChunksRef, starts>>

\* getUserMedia rejects (permission denied, no device): the catch block.
GetUserMediaRejected(i) ==
  /\ mounted
  /\ run[i].dev = "pending"
  /\ run' = [run EXCEPT ![i].dev = "denied", ![i].mach = ""]
  /\ toast' = MicrophoneToast("NotAllowedError")
  /\ UNCHANGED <<storeVars, lifeVars, srvVars, formVars, saveVars,
                 processingStep, isRecording, mediaRecorderRef, audioChunksRef, starts>>

\* getUserMedia resolves but new MediaRecorder(stream, {mimeType}) throws
\* (mime type not supported): the catch block, with the stream acquired.
RecorderConstructorThrows(i) ==
  /\ mounted
  /\ run[i].dev = "pending"
  /\ run' = [run EXCEPT ![i].dev = "live", ![i].rec = "failed", ![i].mach = ""]
  /\ toast' = MicrophoneToast("NotSupportedError")
  /\ UNCHANGED <<storeVars, lifeVars, srvVars, formVars, saveVars,
                 processingStep, isRecording, mediaRecorderRef, audioChunksRef, starts>>

\* getUserMedia resolves and the rest of startRecording runs: the buffer is
\* reset, the recorder is stored in the ref and started.
RecorderStarted(i) ==
  /\ mounted
  /\ run[i].dev = "pending"
  /\ run' = [run EXCEPT ![i].dev = "live", ![i].rec = "recording"]
  /\ audioChunksRef' = <<>>
  /\ mediaRecorderRef' = i
  /\ isRecording' = TRUE
  /\ processingStep' = "recording"
  /\ toast' = "none"
  /\ UNCHANGED <<storeVars, lifeVars, srvVars, formVars, saveVars, starts>>

\* ondataavailable of recorder i with a non-empty chunk: every second while
\* it records, and once more between stop() and the stop event.
DataAvailable(i) ==
  /\ mounted
  /\ run[i].rec \in {"recording", "stopping"}
  /\ Len(audioChunksRef) < MaxChunks
  /\ audioChunksRef' = Append(audioChunksRef, i)
  /\ toast' = "none"
  /\ UNCHANGED <<storeVars, lifeVars, srvVars, formVars, saveVars,
                 processingStep, isRecording, mediaRecorderRef, starts, run>>

\* onstop of recorder i: its stream's tracks are stopped and processAudio
\* runs up to its first await (step transcribing, the blob is built from
\* the buffer).
RecorderOnStop(i) ==
  /\ mounted
  /\ run[i].rec = "stopping"
  /\ run' = [run EXCEPT ![i].rec = "inactive", ![i].dev = "released",
                        ![i].proc = "transcribing",
                        ![i].payload = audioChunksRef]
  /\ processingStep' = "transcribing"
  /\ toast' = "none"
  /\ UNCHANGED <<storeVars, lifeVars, srvVars, formVars, saveVars,
                 isRecording, mediaRecorderRef, audioChunksRef, starts>>

\* A catch block that leaves the step where the failure found it.
ProcessAudioCatchKeepsStep(i, at, error) ==
  /\ run' = [run EXCEPT ![i].proc = at, ![i].payload = <<>>,
                        ![i].text = "", ![i].mach = ""]
  /\ toast' = ProcessingToast(at, error)
  /\ UNCHANGED <<storeVars, lifeVars, srvVars, formVars, saveVars, processingStep,
                 isRecording, mediaRecorderRef, audioChunksRef, starts>>

\* A catch block that runs processAudio again.
ProcessAudioCatchRetries(i, at, error) ==
  /\ run' = [run EXCEPT ![i].proc = "transcribing", ![i].text = "",
                        ![i].payload = audioChunksRef]
  /\ processingStep' = "transcribing"
  /\ toast' = ProcessingToast(at, error)
  /\ UNCHANGED <<storeVars, lifeVars, srvVars, formVars, saveVars,
                 isRecording, mediaRecorderRef, audioChunksRef, starts>>

\* processAudio's catch block; at records the stage that threw, error is
\* the error caught.
ProcessAudioCatch(i, at, error) ==
  /\ run' = [run EXCEPT ![i].proc = at, ![i].payload = <<>>,
                        ![i].text = "", ![i].mach = ""]
  /\ processingStep' = "idle"
  /\ toast' = ProcessingToast(at, error)
  /\ UNCHANGED <<storeVars, lifeVars, srvVars, formVars, saveVars,
                 isRecording, mediaRecorderRef, audioChunksRef, starts>>

\* The error of a transcribe-audio call that fails (a response that is not
\* ok, as for generate-solution) or of the FileReader.
TranscribeFailure == HttpError(500)

\* The encoding or the transcribe-audio call fails.
TranscribeError(i) ==
  /\ mounted
  /\ run[i].proc = "transcribing"
  /\ ProcessAudioCatch(i, "transcribe_failed", TranscribeFailure)

\* A transcription return that also stores the transcribed text as a
\* draft intervention.
TranscribeOkStoresDraft(i) ==
  /\ mounted
  /\ run[i].proc = "transcribing"
  /\ run' = [run EXCEPT ![i].proc = "generating", ![i].payload = <<>>,
                        ![i].text = Text(i)]
  /\ problemDescription' = Text(i)
  /\ processingStep' = "generating"
  /\ toast' = "none"
  /\ store' = Append(store, InsertRow([problem_description |-> Text(i)]))
  /\ UNCHANGED <<lifeVars, srvVars, saveVars, selectedMachine,
                 selectedTechnician, aiSolution,
                 isRecording, mediaRecorderRef, audioChunksRef, starts>>

\* transcribe-audio returns a text: the description is set, the step moves
\* to generating and generate-solution is invoked.
TranscribeOk(i) ==
  /\ mounted
  /\ run[i].proc = "transcribing"
  /\ run' = [run EXCEPT ![i].proc = "generating", ![i].payload = <<>>,
                        ![i].text = Text(i)]
  /\ problemDescription' = Text(i)
  /\ processingStep' = "generating"
  /\ toast' = "none"
  /\ UNCHANGED <<storeVars, lifeVars, srvVars, saveVars, selectedMachine,
                 selectedTechnician, aiSolution,
                 isRecording, mediaRecorderRef, audioChunksRef, starts>>

\* The generate-solution call returns an error: the handler answered with
\* a status that is not ok.
GenerateError(i) ==
  /\ mounted
  /\ run[i].proc = "generating"
  /\ \E solution \in GenerateResults(i) :
       /\ solution.error # ""
       /\ ProcessAudioCatch(i, "generate_failed", solution.error)

\* The generate-solution call returns data: setAiSolution(solutionData.solution),
\* the step becomes complete, the success toast.
GenerateOk(i) ==
  /\ mounted
  /\ run[i].proc = "generating"
  /\ \E solution \in GenerateResults(i) :
       /\ solution.error = ""
       /\ aiSolution' = SolutionOf(solution.data)
  /\ run' = [run EXCEPT ![i].proc = "done", ![i].text = "", ![i].mach = ""]
  /\ processingStep' = "complete"
  /\ toast' = "processing_done"
  /\ UNCHANGED <<storeVars, lifeVars, srvVars, saveVars, selectedMachine,
                 selectedTechnician, problemDescription,
                 isRecording, mediaRecorderRef, audioChunksRef, starts>>

\* ------------------------------------------------------------ handleSave

\* A validation that forgets the description.
MissingFieldSkipsDescription ==
  selectedMachine = "" \/ selectedTechnician = ""

\* The validation at the top of handleSave.
MissingField ==
  selectedMachine = "" \/ selectedTechnician = "" \/ problemDescription = ""

\* A save button that stays enabled while an insert is in flight.
SaveDisabledIgnoresSaving == MissingField

\* A save button that waits for the AI solution.
SaveDisabledWithoutSolution == saving \/ MissingField \/ aiSolution = ""

\* disabled attribute of the save button.
SaveDisabled == saving \/ MissingField

\* A handleSave that leaves the AI solution out of the insert.
InsertPayloadWithoutSolution ==
  [ machine_id |-> selectedMachine, technician_id |-> selectedTechnician,
    problem_description |-> problemDescription, ai_solution |-> "",
    status |-> "pending", priority |-> "medium" ]

\* The object handleSave inserts.
InsertPayload ==
  [ machine_id |-> selectedMachine, technician_id |-> selectedTechnician,
    problem_description |-> problemDescription, ai_solution |-> aiSolution,
    status |-> "pending", priority |-> "medium" ]

\* handleSave with a field missing: the toast and the early return.
HandleSaveRejected ==
  /\ MissingField
  /\ toast' = "validation"
  /\ UNCHANGED <<storeVars, lifeVars, srvVars, formVars, pipeVars, saveVars>>

\* handleSave past the validation, up to its await: the insert is issued.
HandleSaveInsert ==
  /\ ~MissingField
  /\ saving' = TRUE
  /\ saveReq' = Append(saveReq, InsertPayload)
  /\ toast' = "none"
  /\ UNCHANGED <<storeVars, lifeVars, srvVars, formVars, pipeVars, mounted>>

HandleSave == HandleSaveRejected \/ HandleSaveInsert

\* onClick of the save button.
SaveClick ==
  /\ mounted
  /\ ~SaveDisabled
  /\ HandleSave

\* navigate('/'): the page is unmounted and its component state is gone
\* (the variables keep the values of a page that was never used).  Requests
\* already sent are not recalled.
Unmounted ==
  /\ mounted' = FALSE
  /\ selectedMachine' = ""
  /\ selectedTechnician' = ""
  /\ problemDescription' = ""
  /\ aiSolution' = ""
  /\ processingStep' = "idle"
  /\ isRecording' = FALSE
  /\ saving' = FALSE
  /\ mediaRecorderRef' = 0
  /\ audioChunksRef' = <<>>
  /\ starts' = 0
  /\ run' = [i \in StartIds |-> NoRun]

\* q without its k-th element.
Without(q, k) == SubSeq(q, 1, k - 1) \o SubSeq(q, k + 1, Len(q))

\* An insert succeeds: the row exists, the toast, navigate('/') unmounts
\* the page, finally setSaving(false).
InsertOk ==
  /\ \E k \in 1..Len(saveReq) :
       /\ store' = Append(store, InsertRow(saveReq[k]))
       /\ saveReq' = Without(saveReq, k)
  /\ toast' = "saved"
  /\ Unmounted
  /\ UNCHANGED <<lifeVars, srvVars>>

\* A handleSave that navigates whether or not the insert succeeded.
InsertErrorNavigates ==
  /\ \E k \in 1..Len(saveReq) : saveReq' = Without(saveReq, k)
  /\ toast' = "save_error"
  /\ Unmounted
  /\ UNCHANGED <<storeVars, lifeVars, srvVars>>

\* An insert fails: the catch block, finally setSaving(false).
InsertError ==
  /\ \E k \in 1..Len(saveReq) : saveReq' = Without(saveReq, k)
  /\ toast' = "save_error"
  /\ saving' = FALSE
  /\ UNCHANGED <<storeVars, lifeVars, srvVars, formVars, pipeVars, mounted>>

\* The Cancelar button: navigate('/').
CancelClick ==
  /\ mounted
  /\ toast' = "none"
  /\ Unmounted
  /\ UNCHANGED <<storeVars, lifeVars, srvVars, saveReq>>

\* handleSave called as a function, whatever the save button's state, with
\* no other call of it in flight.
HandleSaveCall ==
  /\ mounted
  /\ saveReq = <<>>
  /\ HandleSave

\* -------------------------------------------------------- specifications

InitIntake ==
  /\ mounted = TRUE
  /\ selectedMachine = ""
  /\ selectedTechnician = ""
  /\ problemDescription = ""
  /\ aiSolution = ""
  /\ processingStep = "idle"
  /\ isRecording = FALSE
  /\ saving = FALSE
  /\ mediaRecorderRef = 0
  /\ audioChunksRef = <<>>
  /\ starts = 0
  /\ run = [i \in StartIds |-> NoRun]
  /\ saveReq = <<>>
  /\ toast = "none"

InitDetail ==
  /\ intervention = [s \in Sessions |-> <<>>]
  /\ updating = [s \in Sessions |-> FALSE]
  /\ updReq = [s \in Sessions |-> <<>>]
  /\ detailToast = [s \in Sessions |-> "none"]
  /\ clock = 1

\* The intake page has just been mounted; the table is empty.
Init ==
  /\ store = <<>>
  /\ InitIntake
  /\ InitDetail
  /\ exchange = <<>>

FormNext ==
  \/ \E m \in Machines : SelectMachine(m)
  \/ \E t \in Technicians : SelectTechnician(t)
  \/ \E txt \in TypedTexts : EditDescription(txt)

PipelineNext ==
  \/ MicClick
  \/ \E i \in StartIds :
       \/ GetUserMediaRejected(i)
       \/ RecorderConstructorThrows(i)
       \/ RecorderStarted(i)
       \/ RecorderOnStop(i)
       \/ TranscribeError(i)
       \/ TranscribeOk(i)
       \/ GenerateError(i)
       \/ GenerateOk(i)

Next ==
  \/ FormNext
  \/ PipelineNext
  \/ SaveClick
  \/ InsertOk
  \/ InsertError
  \/ CancelClick

Spec == Init /\ [][Next]_vars

NextCall ==
  \/ Next
  \/ HandleSaveCall

SpecCall == Init /\ [][NextCall]_vars

\* The recorders and their chunks alone: the pipeline with ondataavailable
\* delivering chunks, the form left as mounted.
NextAudio ==
  \/ PipelineNext
  \/ \E i \in StartIds : DataAvailable(i)

SpecAudio == Init /\ [][NextAudio]_vars

\* A row as handleSave inserts it is in the table; no detail page has
\* loaded it yet.
InitLife ==
  /\ store = <<InsertRow([machine_id |-> "M1", technician_id |-> "T1",
                          problem_description |-> "u", ai_solution |-> "",
                          status |-> "pending", priority |-> "medium"])>>
  /\ InitIntake
  /\ InitDetail
  /\ exchange = <<>>

NextLife ==
  \/ Tick
  \/ \E s \in Sessions :
       \/ FetchData(s)
       \/ QuickAction(s)
       \/ SelectStatus(s)
       \/ UpdateStatusOk(s)
       \/ UpdateStatusError(s)

SpecLife == InitLife /\ [][NextLife]_vars

\* The edge function alone, serving one request after the other.
NextGen ==
  \E request \in ServedRequests, key \in BOOLEAN,
     upstream \in UpstreamOutcomes(ServedStatuses, {"s1"}) :
    Serve(request, key, upstream)

SpecGen == Init /\ [][NextGen]_vars

\* ================================================================ claims

\* ---- C1
\* A save with machine, technician and a non-empty description issues one
\* insert whose payload is the form as it is at the call; while it is in
\* flight no second insert is issued; when an insert succeeds exactly one
\* row is appended, with the payload's machine, technician and description,
\* status pending, priority medium and resolved_at unset.
C1_SaveInsertsOneRow ==
  [][ /\ Len(saveReq') <= 1
      /\ Len(saveReq') > Len(saveReq) =>
           LET p == saveReq'[Len(saveReq')] IN
             /\ selectedMachine # "" /\ selectedTechnician # ""
             /\ problemDescription # ""
             /\ p.machine_id = selectedMachine
             /\ p.technician_id = selectedTechnician
             /\ p.problem_description = problemDescription
      /\ store' # store =>
           /\ Len(store') = Len(store) + 1
           /\ SubSeq(store', 1, Len(store)) = store
           /\ LET row == store'[Len(store')] IN
                /\ row.status = "pending"
                /\ row.priority = "medium"
                /\ row.resolved_at = NULL
                /\ \E k \in 1..Len(saveReq) :
                     /\ row.machine_id = saveReq[k].machine_id
                     /\ row.technician_id = saveReq[k].technician_id
                     /\ row.problem_description = saveReq[k].problem_description
    ]_vars

\* A save has succeeded: the table holds the new pending row and the page
\* has navigated away.
C1_Witness ==
  /\ Len(store) = 1
  /\ store[1].status = "pending" /\ store[1].resolved_at = NULL
  /\ store[1].machine_id = "M1" /\ store[1].problem_description = "t2"
  /\ toast = "saved"
  /\ ~mounted

\* ---- C2
\* handleSave called with the machine, the technician or the description
\* empty issues no insert, shows the validation toast and changes neither
\* the table nor any form field.
C2_InvalidSaveIssuesNoInsert ==
  [][ ( /\ HandleSaveCall
        /\ \/ selectedMachine = ""
           \/ selectedTechnician = ""
           \/ problemDescription = "" )
      => /\ toast' = "validation"
         /\ saveReq' = saveReq
         /\ store' = store
         /\ UNCHANGED <<formVars, saving, mounted>>
    ]_vars

\* handleSave has just rejected a form whose description is empty while
\* machine and technician are selected.
C2_Witness ==
  /\ toast = "validation"
  /\ selectedMachine # "" /\ selectedTechnician # ""
  /\ problemDescription = ""
  /\ saveReq = <<>> /\ store = <<>> /\ ~saving

\* ---- C3
\* In every state of the table, resolved_at is set exactly when the status
\* is resolved.
C3_ResolvedAtIffResolved ==
  \A k \in 1..Len(store) :
    (store[k].resolved_at # NULL) <=> (store[k].status = "resolved")

\* ---- C4
\* No step changes the stored status of an intervention that is resolved
\* or cancelled.
C4_TerminalStatusesStay ==
  [][ \A k \in 1..Len(store) :
        store[k].status \in {"resolved", "cancelled"}
          => store'[k].status = store[k].status
    ]_vars

\* The step in which session s's update returns successfully.
UpdateSucceeds(s) ==
  /\ updReq[s] # <<>>
  /\ updReq'[s] = <<>>
  /\ detailToast'[s] = "status_updated"

\* ---- C5
\* A successful update whose target is resolved writes status resolved and
\* a resolved_at in the same step, and a resolved_at that is set is set
\* after every step.
C5_ResolvedAtSetAndKept ==
  [][ /\ \A s \in Sessions :
           (UpdateSucceeds(s) /\ updReq[s][1].status = "resolved")
             => /\ store'[TheId].status = "resolved"
                /\ store'[TheId].resolved_at # NULL
      /\ \A k \in 1..Len(store) :
           store[k].resolved_at # NULL => store'[k].resolved_at # NULL
    ]_vars

\* The intervention was resolved and later moved to another status by a
\* successful update: its resolved_at is still set.
C5_Witness ==
  /\ store[TheId].status = "in_progress"
  /\ store[TheId].resolved_at # NULL
  /\ \E s \in Sessions : detailToast[s] = "status_updated"

\* ---- C6
\* A successful update whose target is not resolved carries a patch with
\* the status column alone and leaves the stored resolved_at as it was.
C6_OtherTargetsKeepResolvedAt ==
  [][ \A s \in Sessions :
        (UpdateSucceeds(s) /\ updReq[s][1].status # "resolved")
          => /\ DOMAIN updReq[s][1] = {"status"}
             /\ store'[TheId].status = updReq[s][1].status
             /\ store'[TheId].resolved_at = store[TheId].resolved_at
    ]_vars

\* A resolved intervention, stamped at the second clock reading, has just
\* been cancelled by a successful update and keeps that stamp.
C6_Witness ==
  /\ store[TheId].status = "cancelled"
  /\ store[TheId].resolved_at = 2
  /\ \E s \in Sessions :
       /\ detailToast[s] = "status_updated"
       /\ intervention[s] # <<>>
       /\ intervention[s][1].status = "cancelled"

\* The step in which the processAudio run of recording i fails at a stage.
FailsAt(i, stage, at) ==
  /\ run[i].proc = stage
  /\ mounted'
  /\ run'[i].proc = at

\* ---- C7
\* When the encoding or the transcription call of a recording fails, the
\* step becomes idle, the error toast is shown, the description and the AI
\* solution keep their values, and generate-solution is never invoked for
\* that recording.
C7_TranscriptionFailure ==
  [][ \A i \in StartIds :
        /\ FailsAt(i, "transcribing", "transcribe_failed")
             => /\ processingStep' = "idle"
                /\ toast' = "processing_error"
                /\ problemDescription' = problemDescription
                /\ aiSolution' = aiSolution
        /\ (run[i].proc = "transcribe_failed" /\ mounted')
             => run'[i].proc = "transcribe_failed"
    ]_vars

\* The second recording's transcription has just failed: the typed
\* description and the first recording's solution are still in the form.
C7_Witness ==
  /\ run[2].proc = "transcribe_failed"
  /\ toast = "processing_error"
  /\ processingStep = "idle"
  /\ problemDescription = "u"
  /\ aiSolution = Solution(1)

\* ---- C8
\* When the generation call of a recording fails, the step becomes idle,
\* the description still holds the transcribed text if it did before, and
\* the AI solution is empty.
C8_GenerationFailureLeavesSolutionEmpty ==
  [][ \A i \in StartIds :
        FailsAt(i, "generating", "generate_failed")
          => /\ processingStep' = "idle"
             /\ problemDescription = run[i].text
                  => problemDescription' = run[i].text
             /\ aiSolution' = ""
    ]_vars

\* ---- C9
\* When getUserMedia rejects, the error toast is shown, the step,
\* isRecording, the recorder ref and every form field stay as they were,
\* and no recorder is started.
C9_DeviceFailure ==
  [][ \A i \in StartIds :
        (run[i].dev = "pending" /\ mounted' /\ run'[i].dev = "denied")
          => /\ toast' = "mic_error"
             /\ UNCHANGED <<processingStep, isRecording, mediaRecorderRef,
                            audioChunksRef, formVars>>
             /\ \A j \in StartIds : run'[j].rec = run[j].rec
    ]_vars

\* The only start of the session was denied: idle, not recording, no
\* recorder.
C9_Witness ==
  /\ run[1].dev = "denied"
  /\ toast = "mic_error"
  /\ processingStep = "idle"
  /\ ~isRecording
  /\ \A j \in StartIds : run[j].rec = "none"

\* A processAudio run of the session is between its start and its end.
ProcessAudioInFlight ==
  \E i \in StartIds : run[i].proc \in {"transcribing", "generating"}

\* ---- C10
\* While a processAudio run is in flight, no recorder is started and the
\* step does not change to recording.
C10_NoRecordingDuringProcessing ==
  [][ ProcessAudioInFlight
        => /\ \A j \in StartIds :
                run'[j].rec = "recording" => run[j].rec = "recording"
           /\ processingStep' = "recording" => processingStep = "recording"
    ]_vars

\* The startRecording calls of the session whose stream is acquired and
\* whose tracks have not been stopped.
LiveStreams == {i \in StartIds : run[i].dev = "live"}

\* ---- C11
\* In every state of an intake session at most one acquired audio stream
\* is live.
C11_AtMostOneLiveStream == Cardinality(LiveStreams) <= 1

\* ---- C12
\* A stream is released before the transcription call of its recording is
\* issued, it is released when startRecording fails after acquiring it, and
\* whenever the session is not recording, no start is pending and no
\* recorder is between stop() and its stop event, no stream is live.
C12_StreamsReleased ==
  /\ \A i \in StartIds : run[i].proc # "none" => run[i].dev = "released"
  /\ \A i \in StartIds : run[i].rec = "failed" => run[i].dev # "live"
  /\ ( /\ ~isRecording
       /\ \A i \in StartIds : run[i].dev # "pending" /\ run[i].rec # "stopping" )
     => LiveStreams = {}

\* ---- C13
\* The generation call of a recording is issued only in the step in which
\* its transcription call returns a text, and no insert is issued while a
\* transcription or generation call of the session is in flight.
C13_TranscribeGenerateSave ==
  [][ /\ \A i \in StartIds :
           (run'[i].proc = "generating" /\ run[i].proc # "generating")
             => /\ run[i].proc = "transcribing"
                /\ run'[i].text = Text(i)
      /\ Len(saveReq') > Len(saveReq) => ~ProcessAudioInFlight
    ]_vars

\* ---- C14
\* When a generation call fails, the toast is the one processAudio shows
\* for a generation failure; the toast for a generation failure with
\* status 429 differs from the toast for one with status 500, and both
\* differ from the toast for a transcription failure and from the toast
\* for a device failure.
C14_DistinctFailureMessages ==
  [][ \A i \in StartIds :
        FailsAt(i, "generating", "generate_failed")
          => /\ toast' \in { ProcessingToast("generate_failed", HttpError(status)) :
                               status \in GatewayStatuses }
             /\ ProcessingToast("generate_failed", HttpError(429))
                  # ProcessingToast("generate_failed", HttpError(500))
             /\ \A status \in {429, 500} :
                  /\ ProcessingToast("generate_failed", HttpError(status))
                       # ProcessingToast("transcribe_failed", TranscribeFailure)
                  /\ ProcessingToast("generate_failed", HttpError(status))
                       # MicrophoneToast("NotAllowedError")
    ]_vars

\* The last request served was a POST that got as far as the gateway call.
GatewayCalled ==
  /\ exchange # <<>>
  /\ exchange[1].request.method = "POST"
  /\ exchange[1].request.json
  /\ "problemDescription" \in DOMAIN exchange[1].request.fields
  /\ exchange[1].request.fields["problemDescription"] # ""
  /\ exchange[1].key
  /\ exchange[1].upstream.fetch = "resolves"

\* ---- C15
\* For a POST request: a gateway status 429 is answered 429 and 402 is
\* answered 402; every other failure (body that does not parse, missing
\* problemDescription, missing key, fetch rejecting, any other gateway
\* status that is not ok, a gateway body that does not parse) is answered
\* 500; every response other than 200 has an error and no solution; and a
\* 200 is answered only when the gateway answered ok.
C15_HandlerResponses ==
  (exchange # <<>> /\ exchange[1].request.method = "POST") =>
    LET upstream == exchange[1].upstream
        response == exchange[1].response
        succeeded == GatewayCalled /\ ResponseOk(upstream.status) /\ upstream.json
    IN /\ (GatewayCalled /\ upstream.status = 429) => response.status = 429
       /\ (GatewayCalled /\ upstream.status = 402) => response.status = 402
       /\ ( /\ ~succeeded
            /\ ~(GatewayCalled /\ upstream.status \in {402, 429}) )
          => response.status = 500
       /\ response.status # 200
            => /\ "error" \in DOMAIN response.body
               /\ "solution" \notin DOMAIN response.body
       /\ response.status = 200
            => GatewayCalled /\ ResponseOk(upstream.status)

\* The gateway asked for payment and the handler answered 402 with an
\* error.
C15_Witness ==
  /\ GatewayCalled
  /\ exchange[1].upstream.status = 402
  /\ exchange[1].response.status = 402
  /\ DOMAIN exchange[1].response.body = {"error"}

\* ---- C16
\* A 200 response to a POST carries a solution, the content of the first
\* choice of the gateway's answer; and when the generation call of a
\* recording returns and the step becomes complete, the AI solution holds
\* the text generated for that recording.
C16_CompleteHasSolution ==
  [][ /\ ( /\ exchange' # <<>>
           /\ exchange'[1].request.method = "POST"
           /\ exchange'[1].response.status = 200 )
        => /\ "solution" \in DOMAIN exchange'[1].response.body
           /\ exchange'[1].upstream.choice
                = <<exchange'[1].response.body["solution"]>>
      /\ \A i \in StartIds :
           (run[i].proc = "generating" /\ run'[i].proc = "done")
             => /\ processingStep' = "complete"
                /\ aiSolution' = Solution(i)
    ]_vars

\* ---- C17
\* The generate-solution request issued when a transcription returns
\* carries the transcribed text and the model and location of the machine
\* selected at that moment, neither of them if no machine is selected.
C17_RequestUsesSelectedMachine ==
  [][ \A i \in StartIds :
        (run[i].proc = "transcribing" /\ run'[i].proc = "generating")
          => SolutionRequestFields(run'[i].text, run'[i].mach)
               = SolutionRequestFields(Text(i), selectedMachine)
    ]_vars

\* ---- C18
\* When the update of a status transition fails, the table and the cached
\* intervention of that session are exactly as before, the error toast is
\* shown and updating is false again, so the controls that call
\* updateStatus are enabled.
C18_UpdateFailureKeepsCache ==
  [][ \A s \in Sessions :
        ( /\ updReq[s] # <<>>
          /\ updReq'[s] = <<>>
          /\ ~UpdateSucceeds(s) )
        => /\ intervention'[s] = intervention[s]
           /\ store' = store
           /\ detailToast'[s] = "update_error"
           /\ ~updating'[s]
           /\ intervention'[s] # <<>>
    ]_vars

\* Session A asked for resolved on a pending intervention and the update
\* has just failed: the page still shows pending and is no longer updating.
C18_Witness ==
  /\ detailToast["A"] = "update_error"
  /\ intervention["A"] # <<>>
  /\ intervention["A"][1].status = "pending"
  /\ store[TheId].status = "pending"
  /\ ~updating["A"]
  /\ updReq["A"] = <<>>

\* ---- C19
\* When an insert returns without a row having been written, the error
\* toast is shown, the page stays (or stays away) as it was, the four form
\* fields and the step keep their values and saving is false; and the page
\* navigates away with a toast only in the step that appends the row.
C19_SaveFailureKeepsForm ==
  [][ /\ (Len(saveReq') < Len(saveReq) /\ Len(store') = Len(store))
           => /\ toast' = "save_error"
              /\ mounted' = mounted
              /\ UNCHANGED <<formVars, processingStep>>
              /\ ~saving'
              /\ store' = store
      /\ (mounted /\ ~mounted' /\ toast' # "none")
           => /\ toast' = "saved"
              /\ Len(store') = Len(store) + 1
    ]_vars

\* The insert of a completed form has just failed: the page is still
\* there with the form as it was saved, and can be saved again.
C19_Witness ==
  /\ toast = "save_error"
  /\ mounted /\ ~saving /\ saveReq = <<>>
  /\ store = <<>>
  /\ selectedMachine = "M1" /\ selectedTechnician = "T1"
  /\ problemDescription = Text(1) /\ aiSolution = Solution(1)
  /\ processingStep = "complete"
  /\ ~SaveDisabled

\* ---- C20
\* On the mounted page, whatever the step: every edit of the description
\* can be made and sets the field to the text typed; and when machine,
\* technician and a non-empty description are present and no save is in
\* flight, a click on save issues the insert of the form as it is, with
\* whatever the AI solution holds.
C20_ManualEntryAlwaysValid ==
  mounted =>
    /\ \A txt \in TypedTexts \ {problemDescription} :
         ENABLED (EditDescription(txt) /\ problemDescription' = txt)
    /\ (~MissingField /\ ~saving)
         => ENABLED ( /\ SaveClick
                      /\ saveReq' = Append(saveReq, InsertPayload)
                      /\ saving' )

\* A typed description was saved while the transcription of a recording
\* was in flight, with no AI solution.
C20_Witness ==
  /\ mounted
  /\ processingStep = "transcribing"
  /\ problemDescription = "u"
  /\ aiSolution = ""
  /\ Len(saveReq) = 1
  /\ saveReq[1].problem_description = "u"
  /\ saveReq[1].ai_solution = ""

\* The step edges of the state machine: the four forward edges and any
\* step to idle.
StepEdges ==
  { <<"idle", "recording">>, <<"recording", "transcribing">>,
    <<"transcribing", "generating">>, <<"generating", "complete">> }
  \cup { <<step, "idle">> : step \in ProcessingSteps }

\* ---- C21
\* For each recording: when its recorder starts the step becomes recording,
\* when its stop event arrives the step becomes transcribing, when its
\* transcription returns the step becomes generating and the description
\* is the transcribed text, and when its generation returns the step
\* becomes complete, the description stays and the AI solution, if
\* populated, is the text generated for that recording; in a session with
\* a single recording the step changes along the edges only.  A save then
\* issues an insert carrying the description and the AI solution of the
\* form, and the row written is pending/medium with the machine, the
\* technician and the two texts of that insert.
C21_SuccessScenario ==
  [][ /\ \A i \in StartIds :
           /\ (run[i].rec = "none" /\ run'[i].rec = "recording")
                => processingStep' = "recording"
           /\ (run[i].proc = "none" /\ run'[i].proc = "transcribing")
                => run[i].rec = "stopping" /\ processingStep' = "transcribing"
           /\ (run[i].proc = "transcribing" /\ run'[i].proc = "generating")
                => /\ processingStep' = "generating"
                   /\ problemDescription' = Text(i)
           /\ (run[i].proc = "generating" /\ run'[i].proc = "done")
                => /\ processingStep' = "complete"
                   /\ problemDescription' = problemDescription
                   /\ aiSolution' # "" => aiSolution' = Solution(i)
           /\ run'[i].proc = "done" => run[i].proc \in {"generating", "done"}
      /\ (mounted' /\ starts' <= 1 /\ processingStep' # processingStep)
           => <<processingStep, processingStep'>> \in StepEdges
      /\ Len(saveReq') > Len(saveReq)
           => /\ saveReq'[Len(saveReq')].problem_description = problemDescription
              /\ saveReq'[Len(saveReq')].ai_solution = aiSolution
      /\ Len(store') > Len(store)
           => \E k \in 1..Len(saveReq) :
                store'[Len(store')]
                  = [ machine_id |-> saveReq[k].machine_id,
                      technician_id |-> saveReq[k].technician_id,
                      problem_description |-> saveReq[k].problem_description,
                      ai_solution |-> saveReq[k].ai_solution,
                      status |-> "pending", priority |-> "medium",
                      resolved_at |-> NULL ]
    ]_vars

\* One recording was transcribed and its solution generated, and the form
\* was saved with machine M1 and technician T1: the table holds that row.
C21_Witness ==
  /\ store = << [ machine_id |-> "M1", technician_id |-> "T1",
                  problem_description |-> Text(1), ai_solution |-> Solution(1),
                  status |-> "pending", priority |-> "medium",
                  resolved_at |-> NULL ] >>
  /\ toast = "saved"

\* ---- C22
\* While the page is mounted every change of the step is one of the edges
\* idle -> recording, recording -> transcribing, transcribing ->
\* generating, generating -> complete, or a step to idle.
C22_StepFollowsEdges ==
  [][ (mounted' /\ processingStep' # processingStep)
        => <<processingStep, processingStep'>> \in StepEdges ]_vars

\* ---- C23
\* While the page is mounted: a recorder is stopped only by the user's
\* click on the recording button; the stop event of a recording invokes
\* the transcription, and nothing else does; the generation is invoked
\* only by the transcription of the same recording returning a text; and
\* a processAudio that failed or completed issues no further call.
C23_NoAutomaticRetry ==
  [][ mounted' =>
      \A i \in StartIds :
        /\ (run[i].rec # "stopping" /\ run'[i].rec = "stopping")
             => run[i].rec = "recording" /\ isRecording /\ ~isRecording'
        /\ (run[i].rec = "stopping" /\ run'[i].rec # "stopping")
             => run[i].proc = "none" /\ run'[i].proc = "transcribing"
        /\ (run[i].proc # "transcribing" /\ run'[i].proc = "transcribing")
             => run[i].proc = "none" /\ run[i].rec = "stopping"
        /\ (run[i].proc # "generating" /\ run'[i].proc = "generating")
             => run[i].proc = "transcribing"
        /\ run[i].proc \in {"transcribe_failed", "generate_failed", "done"}
             => run'[i] = run[i]
    ]_vars

\* The generation of the first recording failed, and the user recorded
\* again: the transcription of the second recording is in flight.
C23_Witness ==
  /\ run[1].proc = "generate_failed"
  /\ run[2].proc = "transcribing"
  /\ run[2].rec = "inactive"

\* Spec with every external call of a stopped recording returning: the
\* stop event is delivered, and the transcription and the generation
\* each answer with a success or a failure.
SpecLive ==
  /\ Init /\ [][Next]_vars
  /\ \A i \in StartIds :
       /\ WF_vars(RecorderOnStop(i))
       /\ WF_vars(TranscribeOk(i) \/ TranscribeError(i))
       /\ WF_vars(GenerateOk(i) \/ GenerateError(i))

\* ---- C24
\* When the processAudio of a recording ends, either both services
\* answered with their payload and the step becomes complete with the
\* generated text in the AI solution, or the step becomes idle: a
\* response without the expected payload counts as a failure.
C24_EndsCompleteOrIdle ==
  [][ \A i \in StartIds :
        (/\ mounted'
         /\ run[i].proc \in {"transcribing", "generating"}
         /\ run'[i].proc \in {"transcribe_failed", "generate_failed", "done"})
          => \/ processingStep' = "idle"
             \/ /\ processingStep' = "complete"
                /\ run'[i].proc = "done"
                /\ aiSolution' = Solution(i)
    ]_vars

\* The termination half of C24 alone, under SpecLive: a step of
\* transcribing or generating is eventually followed by complete or idle.
C24_LeavesProcessing ==
  (processingStep \in {"transcribing", "generating"})
    ~> (processingStep \in {"complete", "idle"})

\* ---- C25
\* An update in flight can always be applied, whatever status the table
\* holds and whatever status the session has cached; when it is applied
\* the stored status is its target; and the stored status changes in no
\* other step.  So the stored status is the target of the update applied
\* last.
C25_LastWriterWins ==
  /\ [](\A s \in Sessions : updReq[s] # <<>> => ENABLED UpdateStatusOk(s))
  /\ [][ /\ \A s \in Sessions :
             UpdateSucceeds(s) => store'[TheId].status = updReq[s][1].status
        /\ store'[TheId].status # store[TheId].status
             => \E s \in Sessions : UpdateSucceeds(s)
      ]_vars

\* Both sessions loaded the intervention before it was resolved.  B
\* resolved it; A's update to cancelled was applied last and the table
\* says cancelled, while B's page still shows resolved.
C25_Witness ==
  /\ intervention["A"] # <<>> /\ intervention["B"] # <<>>
  /\ intervention["A"][1].resolved_at = NULL
  /\ intervention["B"][1].resolved_at = NULL
  /\ intervention["B"][1].status = "resolved"
  /\ detailToast["A"] = "status_updated"
  /\ intervention["A"][1].status = "cancelled"
  /\ store[TheId].status = "cancelled"
  /\ store[TheId].resolved_at # NULL

\* ---- C26
\* On a loaded detail page that is not updating, the select can request
\* every one of the four statuses, whatever status the page shows; and a
\* successful update writes its target to the table and to the cached
\* intervention of the session, whatever the stored and the cached
\* status were.
C26_AnyTargetApplied ==
  /\ [](\A s \in Sessions, t \in Statuses :
          (intervention[s] # <<>> /\ ~updating[s])
            => ENABLED (SelectStatus(s) /\ updReq'[s] = <<UpdateData(t, Now)>>))
  /\ [][ \A s \in Sessions :
          UpdateSucceeds(s)
            => /\ store'[TheId].status = updReq[s][1].status
               /\ intervention'[s][1].status = updReq[s][1].status
      ]_vars

\* An intervention that had been resolved is pending again, in the table
\* and on A's page, after a successful update through A: a pair that is
\* in no transition table was applied.
C26_Witness ==
  /\ store[TheId].status = "pending"
  /\ store[TheId].resolved_at # NULL
  /\ detailToast["A"] = "status_updated"
  /\ intervention["A"] # <<>>
  /\ intervention["A"][1].status = "pending"

\* ---- C27
\* With one session on the intervention (the other page never loaded it,
\* so it never writes), after every successful update the cached
\* intervention has the stored status and the stored resolved_at.
C27_CacheAgreesWithStore ==
  [][ \A s \in Sessions :
        (UpdateSucceeds(s) /\ \A t \in Sessions \ {s} : intervention[t] = <<>>)
          => /\ intervention'[s][1].status = store'[TheId].status
             /\ intervention'[s][1].resolved_at = store'[TheId].resolved_at
    ]_vars

\* ---- C28
\* The table changes only in a step that takes an insert issued by
\* handleSave out of flight and appends its row; an insert is put in
\* flight only by a save, which leaves the pipeline alone; and every step
\* that changes the recorders, the buffer, the step or a processAudio run
\* of the mounted page leaves the table as it was.
C28_StoreWrittenOnlyBySave ==
  [][ /\ store' # store
           => /\ Len(saveReq') = Len(saveReq) - 1
              /\ \E k \in 1..Len(saveReq) :
                   store' = Append(store, InsertRow(saveReq[k]))
      /\ Len(saveReq') > Len(saveReq)
           => saving' /\ ~saving /\ pipeVars' = pipeVars /\ store' = store
      /\ (mounted' /\ pipeVars' # pipeVars) => store' = store
    ]_vars

\* A recording went through transcription and generation to complete, and
\* nothing has been written to the table.
C28_Witness ==
  /\ processingStep = "complete"
  /\ problemDescription = Text(1)
  /\ aiSolution = Solution(1)
  /\ run[1].proc = "done"
  /\ store = <<>>
  /\ saveReq = <<>>

\* ---- C29
\* In every state, isRecording is true only while the step is recording.
C29_IsRecordingImpliesStep ==
  isRecording => processingStep = "recording"

\* ---- C30
\* From the start of a recorder to its stop event the buffer changes only
\* by a chunk of that recorder being appended (it is not reset and gets
\* no chunk of another recorder), and the payload built at the stop event
\* is the buffer: exactly the chunks of that recording, in order.
C30_PayloadIsOwnChunks ==
  [][ \A i \in StartIds :
        /\ (mounted' /\ run[i].rec \in {"recording", "stopping"})
             => \/ audioChunksRef' = audioChunksRef
                \/ audioChunksRef' = Append(audioChunksRef, i)
        /\ (run[i].rec = "stopping" /\ run'[i].rec = "inactive")
             => /\ run'[i].payload = audioChunksRef
                /\ \A k \in 1..Len(run'[i].payload) : run'[i].payload[k] = i
    ]_vars

====
